---- MODULE Spec2Model ----
(***************************************************************************)
(* Model of src/src/train.py: the training supervisor of brap-brain.       *)
(*                                                                         *)
(* One process runs three threads: the main thread (train, lines 304-349), *)
(* the management thread (do_management, lines 313-336) and the training   *)
(* thread (do_training, lines 232-302).  The model directory (the progress *)
(* file training-metadata.json and the checkpoint-<n> sub-directories)     *)
(* outlives the process; a process may be killed at any point and a new    *)
(* one started on the same directory.                                      *)
(***************************************************************************)
EXTENDS Integers, Sequences, FiniteSets, TLC

(* ------------------------------ bounds -------------------------------- *)

\* Processes started on one model directory.
MaxRuns == 2
\* Epochs trained on one model directory, over all its processes.
MaxEpochs == 3
\* Faults (a kill of the process, a write to storage that raises) one model
\* directory lives through.
MaxFaults == 1
\* Largest --checkpoint-every-epochs value tried.
MaxCadence == 2

(* ------------------------------ inputs -------------------------------- *)

\* Tokenizer index paths an invocation may name (--tokenizer-index).
Toks == {"tokA", "tokB"}
NoTok == "none"

\* --target-epochs: -1 trains without limit (line 123).
TargetSet == {-1, 0, 1, 2}

\* --checkpoint-every-epochs: argparse accepts any int (lines 133-138); a
\* negative value compares at line 285 as 0 does.
CadenceSet == 0..MaxCadence

\* --train-epoch-steps (lines 126-131).
StepsSet == {1, 2}

\* Lines the operator may type, as sequences of characters.
Quit == <<"q", "u", "i", "t">>
Help == <<"h", "e", "l", "p">>
Lines == {Quit, <<" ">> \o Quit \o <<" ">>, Help, <<"Q", "u", "i", "t">>}

Whitespace == {" ", "\t"}

RECURSIVE LStrip(_)
LStrip(s) ==
    IF s # << >> /\ Head(s) \in Whitespace THEN LStrip(Tail(s)) ELSE s

RECURSIVE RStrip(_)
RStrip(s) ==
    IF s # << >> /\ s[Len(s)] \in Whitespace
    THEN RStrip(SubSeq(s, 1, Len(s) - 1))
    ELSE s

\* str.strip() of line 323.
Strip(s) == RStrip(LStrip(s))

(* ------------------------------- state -------------------------------- *)

VARIABLES
    \* the model directory
    file,                         \* <output_dir>/training-metadata.json
    checkpoints,                  \* the checkpoint-<n> sub-directories
                                  \* this process has written (the program
                                  \* never reads a checkpoint directory)
    \* the invocation's arguments
    tokenizer_index,
    target_epochs,
    train_epoch_steps,
    checkpoint_every_epochs,
    \* do_training's locals
    training_meta,
    num_epochs,
    num_epochs_since_checkpoint,
    raisedAt,                     \* what raised into the except clause
    \* shared between the threads
    should_graceful_exit,
    \* do_management's local
    user_input,
    \* the threads' positions
    mainPc,
    mgmtPc,
    trainPc,
    \* what the logger has written in this process
    log,
    \* history of the model directory (not program state)
    hist

vars ==
    << file, checkpoints, tokenizer_index, target_epochs, train_epoch_steps,
       checkpoint_every_epochs, training_meta, num_epochs,
       num_epochs_since_checkpoint, raisedAt, should_graceful_exit,
       user_input, mainPc, mgmtPc, trainPc, log, hist >>

dirVars == << file, checkpoints >>
argVars ==
    << tokenizer_index, target_epochs, train_epoch_steps,
       checkpoint_every_epochs >>
consoleVars == << user_input, mainPc, mgmtPc >>

Terminal == {"done", "raised", "killed"}

\* A progress file that does not exist.
Absent == [st |-> "absent", iters |-> 0, tok |-> NoTok]

\* A progress file opened with mode 'w' whose JSON has not been (fully)
\* written: line 46 truncates the file before line 47 writes it.
Truncated == [st |-> "partial", iters |-> 0, tok |-> NoTok]

\* What json.dump writes for a TrainingMetadata (lines 47-54).  The tokenizer
\* index is written as its project-relative path, from which load makes a
\* LocalPath again (line 72); both name the same file.
Content(meta) == [st |-> "ok", iters |-> meta.iters, tok |-> meta.tok]

\* LocalPath's != of line 252.  lib_path is not part of the sources: paths
\* are taken to differ when they name different files.
LocalPathNe(a, b) == a # b

NoLog ==
    [warn |-> 0, error |-> FALSE, graceful |-> FALSE, summary |-> FALSE,
     done |-> FALSE]

NoHist ==
    [runs |-> 1,            \* processes started so far
     epochsDone |-> 0,      \* epochs whose model.train call returned
     faults |-> 0,          \* faults so far
     killed |-> FALSE,      \* some process was killed
     ioFailed |-> FALSE,    \* some write to storage raised
     loadFailed |-> FALSE,  \* this process's load of the progress file raised
     persisted |-> 0,       \* the last complete training_iterations on file
     setDuring |-> 0,       \* epoch whose model.train ran when the flag was set
     ckptEpochs |-> {},     \* epochs of this process that ended in a checkpoint
     ckptBranch |-> {},     \* epochs of this process that took the branch
     ckptFailedAt |-> 0,    \* epoch whose checkpoint write raised
     finalSaves |-> 0,      \* saves attempted after the loop exited
     loaded |-> 0,          \* training_iterations this process started from
     trainCalls |-> 0,      \* calls of model.train by this process
     exitBy |-> "none"]     \* what made the condition of line 264 false

\* The first process on a new model directory; its tokenizer index is called
\* tokA (the names are interchangeable).
Init ==
    /\ file = Absent
    /\ checkpoints = {}
    /\ tokenizer_index = "tokA"
    /\ target_epochs \in TargetSet
    /\ train_epoch_steps \in StepsSet
    /\ checkpoint_every_epochs \in CadenceSet
    /\ training_meta = [iters |-> 0, tok |-> NoTok]
    /\ num_epochs = 0
    /\ num_epochs_since_checkpoint = 0
    /\ raisedAt = "none"
    /\ should_graceful_exit = FALSE
    /\ user_input = << >>
    /\ mainPc = "start"
    /\ mgmtPc = "notstarted"
    /\ trainPc = "notstarted"
    /\ log = NoLog
    /\ hist = NoHist

(* ------------------------ the training thread ------------------------- *)

\* Load as it would be if a resumed process started counting from zero.
LoadFresh(f) == [iters |-> 0, tok |-> f.tok]

\* TrainingMetadata.load (lines 67-73) of a well-formed file.
Load(f) == [iters |-> f.iters, tok |-> f.tok]

\* Override as it would be if the recorded tokenizer index were kept.
OverrideKeep(meta, tok) == meta

\* Line 254: the invocation's tokenizer index replaces the recorded one.
Override(meta, tok) == [meta EXCEPT !.tok = tok]

\* Setup as it would be if a progress file that cannot be parsed were
\* treated like a missing one.
SetupLenient ==
    /\ trainPc = "setup"
    /\ CASE file.st \in {"absent", "partial"} ->
              /\ training_meta' = [iters |-> 0, tok |-> tokenizer_index]
              /\ trainPc' = "loop"
              /\ UNCHANGED << log, hist >>
         [] file.st = "ok" ->
              /\ training_meta' =
                    IF LocalPathNe(Load(file).tok, tokenizer_index)
                    THEN Override(Load(file), tokenizer_index)
                    ELSE Load(file)
              /\ log' =
                    IF LocalPathNe(Load(file).tok, tokenizer_index)
                    THEN [log EXCEPT !.warn = @ + 1]
                    ELSE log
              /\ trainPc' = "loop"
              /\ hist' = [hist EXCEPT !.loaded = Load(file).iters]
    /\ num_epochs' = 0
    /\ num_epochs_since_checkpoint' = 0
    /\ UNCHANGED << dirVars, argVars, raisedAt, should_graceful_exit,
                    consoleVars >>

\* Lines 239-261: the metadata is created, or loaded from the progress file
\* when it exists; json.load raises on a file that is not well-formed JSON,
\* outside the try block, so the exception ends the thread.
Setup ==
    /\ trainPc = "setup"
    /\ CASE file.st = "absent" ->
              /\ training_meta' = [iters |-> 0, tok |-> tokenizer_index]
              /\ trainPc' = "loop"
              /\ UNCHANGED << log, hist >>
         [] file.st = "ok" ->
              /\ training_meta' =
                    IF LocalPathNe(Load(file).tok, tokenizer_index)
                    THEN Override(Load(file), tokenizer_index)
                    ELSE Load(file)
              /\ log' =
                    IF LocalPathNe(Load(file).tok, tokenizer_index)
                    THEN [log EXCEPT !.warn = @ + 1]
                    ELSE log
              /\ trainPc' = "loop"
              /\ hist' = [hist EXCEPT !.loaded = Load(file).iters]
         [] file.st = "partial" ->
              /\ training_meta' = [iters |-> 0, tok |-> tokenizer_index]
              /\ trainPc' = "raised"
              /\ hist' = [hist EXCEPT !.loadFailed = TRUE]
              /\ UNCHANGED log
    /\ num_epochs' = 0
    /\ num_epochs_since_checkpoint' = 0
    /\ UNCHANGED << dirVars, argVars, raisedAt, should_graceful_exit,
                    consoleVars >>

\* LoopCondition as it would be if the event were not consulted.
LoopConditionNoFlag == num_epochs < target_epochs \/ target_epochs < 0

\* The while condition of line 264.
LoopCondition ==
    /\ ~should_graceful_exit
    /\ (num_epochs < target_epochs \/ target_epochs < 0)

\* Lines 264-266: the condition is evaluated; model.train is invoked, or
\* the loop is left for the finally clause.
LoopCheck ==
    /\ trainPc = "loop"
    /\ LoopCondition => hist.epochsDone < MaxEpochs
    /\ trainPc' = IF LoopCondition THEN "train" ELSE "finally"
    /\ hist' =
          IF LoopCondition
          THEN [hist EXCEPT !.trainCalls = @ + 1]
          ELSE [hist EXCEPT !.exitBy = IF should_graceful_exit
                                       THEN "flag"
                                       ELSE "target"]
    /\ UNCHANGED << dirVars, argVars, training_meta, num_epochs,
                    num_epochs_since_checkpoint, raisedAt,
                    should_graceful_exit, consoleVars, log >>

\* AddSteps as it would be if an epoch counted as one iteration.
AddOne(meta, steps) == [meta EXCEPT !.iters = @ + 1]

\* Line 278.
AddSteps(meta, steps) == [meta EXCEPT !.iters = @ + steps]

\* Lines 266-280: model.train returns and the counters are incremented.
TrainReturn ==
    /\ trainPc = "train"
    /\ num_epochs' = num_epochs + 1
    /\ num_epochs_since_checkpoint' = num_epochs_since_checkpoint + 1
    /\ training_meta' = AddSteps(training_meta, train_epoch_steps)
    /\ trainPc' = "save_open"
    /\ hist' = [hist EXCEPT !.epochsDone = @ + 1]
    /\ UNCHANGED << dirVars, argVars, raisedAt, should_graceful_exit,
                    consoleVars, log >>

\* Lines 293-294: an exception raised inside the try block is caught after
\* the loop, logged and not raised again; the finally clause follows.
Caught(what) ==
    /\ raisedAt' = what
    /\ log' = [log EXCEPT !.error = TRUE]
    /\ trainPc' = "finally"

\* TrainRaise as it would be if the failed epoch were counted.
TrainRaiseCounted ==
    /\ trainPc = "train"
    /\ Caught("train")
    /\ num_epochs' = num_epochs + 1
    /\ training_meta' = AddSteps(training_meta, train_epoch_steps)
    /\ UNCHANGED << dirVars, argVars, num_epochs_since_checkpoint,
                    should_graceful_exit, consoleVars, hist >>

\* Line 266: model.train raises.
TrainRaise ==
    /\ trainPc = "train"
    /\ Caught("train")
    /\ UNCHANGED << dirVars, argVars, training_meta, num_epochs,
                    num_epochs_since_checkpoint, should_graceful_exit,
                    consoleVars, hist >>

\* EpochSaveOpen as it would be if the checkpoint were begun before the
\* progress file is written.
EpochSaveOpenThenCheckpoint ==
    /\ trainPc = "save_open"
    /\ file' = Truncated
    /\ trainPc' = "ckpt_model"
    /\ UNCHANGED << checkpoints, argVars, training_meta, num_epochs,
                    num_epochs_since_checkpoint, raisedAt,
                    should_graceful_exit, consoleVars, log, hist >>

\* Line 282 -> line 46: open(out_file, 'w') truncates the progress file.
EpochSaveOpen ==
    /\ trainPc = "save_open"
    /\ file' = Truncated
    /\ trainPc' = "save_write"
    /\ UNCHANGED << checkpoints, argVars, training_meta, num_epochs,
                    num_epochs_since_checkpoint, raisedAt,
                    should_graceful_exit, consoleVars, log, hist >>

\* ShouldCheckpoint as it would be with a strict comparison.
ShouldCheckpointStrict ==
    num_epochs_since_checkpoint > checkpoint_every_epochs

\* The condition of line 285.
ShouldCheckpoint == num_epochs_since_checkpoint >= checkpoint_every_epochs

\* Line 282 -> lines 47-54: json.dump writes the metadata; then line 285
\* decides whether this epoch ends in a checkpoint.
EpochSaveWrite ==
    /\ trainPc = "save_write"
    /\ file' = Content(training_meta)
    /\ trainPc' = IF ShouldCheckpoint THEN "ckpt_model" ELSE "loop"
    /\ hist' = [hist EXCEPT !.persisted = training_meta.iters,
                            !.ckptBranch =
                                IF ShouldCheckpoint THEN @ \cup {num_epochs}
                                                    ELSE @]
    /\ UNCHANGED << checkpoints, argVars, training_meta, num_epochs,
                    num_epochs_since_checkpoint, raisedAt,
                    should_graceful_exit, consoleVars, log >>

\* Line 282: the save raises (open fails and leaves the file as it was, or
\* the write fails and leaves it truncated).
EpochSaveRaise ==
    /\ hist.faults < MaxFaults
    /\ trainPc \in {"save_open", "save_write"}
    /\ Caught("save")
    /\ hist' = [hist EXCEPT !.ioFailed = TRUE, !.faults = @ + 1]
    /\ UNCHANGED << dirVars, argVars, training_meta, num_epochs,
                    num_epochs_since_checkpoint, should_graceful_exit,
                    consoleVars >>

\* CheckpointName as it would be if checkpoints were named by epoch count.
CheckpointNameByEpoch(meta) == num_epochs

\* The name of line 286: checkpoint-<training_iterations>.
CheckpointName(meta) == meta.iters

\* The directories other than checkpoint-<n>.
Others(n) == {c \in checkpoints : c.n # n}

\* Lines 286-287: model.save writes the model into the checkpoint directory.
CheckpointModelSave ==
    /\ trainPc = "ckpt_model"
    /\ checkpoints' =
          Others(CheckpointName(training_meta)) \cup
          {[n |-> CheckpointName(training_meta), meta |-> Absent]}
    /\ trainPc' = "ckpt_meta"
    /\ UNCHANGED << file, argVars, training_meta, num_epochs,
                    num_epochs_since_checkpoint, raisedAt,
                    should_graceful_exit, consoleVars, log, hist >>

\* Lines 289-292: the copy of the metadata is written into the checkpoint
\* directory and the counter is reset.
CheckpointMetaSave ==
    /\ trainPc = "ckpt_meta"
    /\ checkpoints' =
          Others(CheckpointName(training_meta)) \cup
          {[n |-> CheckpointName(training_meta),
            meta |-> Content(training_meta)]}
    /\ num_epochs_since_checkpoint' = 0
    /\ trainPc' = "loop"
    /\ hist' = [hist EXCEPT !.ckptEpochs = @ \cup {num_epochs}]
    /\ UNCHANGED << file, argVars, training_meta, num_epochs, raisedAt,
                    should_graceful_exit, consoleVars, log >>

\* Lines 287-289: model.save or the save of the copy raises; the except
\* clause of line 293 is outside the loop.
CheckpointRaise ==
    /\ hist.faults < MaxFaults
    /\ trainPc \in {"ckpt_model", "ckpt_meta"}
    /\ Caught("checkpoint")
    /\ hist' = [hist EXCEPT !.ioFailed = TRUE, !.faults = @ + 1,
                            !.ckptFailedAt = num_epochs]
    /\ UNCHANGED << dirVars, argVars, training_meta, num_epochs,
                    num_epochs_since_checkpoint, should_graceful_exit,
                    consoleVars >>

\* Lines 296-297.
Finally ==
    /\ trainPc = "finally"
    /\ log' = IF should_graceful_exit THEN [log EXCEPT !.graceful = TRUE]
                                      ELSE log
    /\ trainPc' = "final_open"
    /\ UNCHANGED << dirVars, argVars, training_meta, num_epochs,
                    num_epochs_since_checkpoint, raisedAt,
                    should_graceful_exit, consoleVars, hist >>

\* Line 299 -> line 46.
FinalSaveOpen ==
    /\ trainPc = "final_open"
    /\ file' = Truncated
    /\ trainPc' = "final_write"
    /\ hist' = [hist EXCEPT !.finalSaves = @ + 1]
    /\ UNCHANGED << checkpoints, argVars, training_meta, num_epochs,
                    num_epochs_since_checkpoint, raisedAt,
                    should_graceful_exit, consoleVars, log >>

\* FinalSaveWrite as it would be if nothing were written after the loop.
FinalSaveSkip ==
    /\ trainPc = "final_write"
    /\ log' = [log EXCEPT !.summary = TRUE]
    /\ trainPc' = "done"
    /\ UNCHANGED << dirVars, argVars, training_meta, num_epochs,
                    num_epochs_since_checkpoint, raisedAt,
                    should_graceful_exit, consoleVars, hist >>

\* Line 299 -> lines 47-54, then the summary of lines 301-302.
FinalSaveWrite ==
    /\ trainPc = "final_write"
    /\ file' = Content(training_meta)
    /\ log' = [log EXCEPT !.summary = TRUE]
    /\ trainPc' = "done"
    /\ hist' = [hist EXCEPT !.persisted = training_meta.iters]
    /\ UNCHANGED << checkpoints, argVars, training_meta, num_epochs,
                    num_epochs_since_checkpoint, raisedAt,
                    should_graceful_exit, consoleVars >>

\* Line 299 raises inside the finally clause: nothing catches it, lines
\* 301-302 are skipped and the exception ends the thread.
FinalSaveRaise ==
    /\ hist.faults < MaxFaults
    /\ trainPc \in {"final_open", "final_write"}
    /\ trainPc' = "raised"
    /\ hist' = [hist EXCEPT !.ioFailed = TRUE, !.faults = @ + 1,
                            !.finalSaves =
                                IF trainPc = "final_open" THEN @ + 1 ELSE @]
    /\ UNCHANGED << dirVars, argVars, training_meta, num_epochs,
                    num_epochs_since_checkpoint, raisedAt,
                    should_graceful_exit, consoleVars, log >>

(* ----------------------- the management thread ------------------------ *)

trainVars ==
    << training_meta, num_epochs, num_epochs_since_checkpoint, raisedAt >>

\* Lines 319-320: do_management starts the training thread.
ManagementBegin ==
    /\ mgmtPc = "begin"
    /\ trainPc = "notstarted"
    /\ trainPc' = "setup"
    /\ mgmtPc' = "input"
    /\ UNCHANGED << dirVars, argVars, trainVars, should_graceful_exit,
                    user_input, mainPc, log, hist >>

\* IsQuit as it would be if the comparison ignored case.
IsQuitAnyCase(input) == input = Quit \/ input = << "Q", "u", "i", "t" >>

\* The comparison of line 325.
IsQuit(input) == input = Quit

\* Lines 323-333: one line is read and stripped; 'quit' sets the event and
\* returns, anything else is answered and the loop reads on.
ManagementInput ==
    /\ mgmtPc = "input"
    /\ \E line \in Lines :
          /\ user_input' = Strip(line)
          /\ IF IsQuit(Strip(line))
             THEN /\ should_graceful_exit' = TRUE
                  /\ mgmtPc' = "done"
                  /\ hist' =
                        IF trainPc = "train"
                        THEN [hist EXCEPT !.setDuring = num_epochs + 1]
                        ELSE hist
             ELSE UNCHANGED << should_graceful_exit, mgmtPc, hist >>
    /\ UNCHANGED << dirVars, argVars, trainVars, mainPc, trainPc, log >>

\* Line 323: input() raises EOFError when standard input is closed; nothing
\* catches it and the thread ends.
ManagementEOF ==
    /\ mgmtPc = "input"
    /\ mgmtPc' = "raised"
    /\ UNCHANGED << dirVars, argVars, trainVars, should_graceful_exit,
                    user_input, mainPc, trainPc, log, hist >>

(* --------------------------- the main thread -------------------------- *)

\* Line 344: management_thread.start().
MainStartManagement ==
    /\ mainPc = "start"
    /\ mgmtPc' = "begin"
    /\ mainPc' = "join_training"
    /\ UNCHANGED << dirVars, argVars, trainVars, should_graceful_exit,
                    user_input, trainPc, log, hist >>

\* Line 346: training_thread.join() returns once the thread has ended, and
\* raises RuntimeError for a thread that has not been started.
MainJoinTraining ==
    /\ mainPc = "join_training"
    /\ \/ /\ trainPc = "notstarted"
          /\ mainPc' = "raised"
       \/ /\ trainPc \in {"done", "raised"}
          /\ mainPc' = "join_management"
    /\ UNCHANGED << dirVars, argVars, trainVars, should_graceful_exit,
                    user_input, mgmtPc, trainPc, log, hist >>

\* ManagementFinished as it would be if the join did not wait.
ManagementFinishedNoWait == TRUE

\* What management_thread.join() of line 347 waits for.
ManagementFinished == mgmtPc \in {"done", "raised"}

\* Lines 347-349: management_thread.join() returns and "Done" is logged.
MainJoinManagement ==
    /\ mainPc = "join_management"
    /\ ManagementFinished
    /\ mainPc' = "done"
    /\ log' = [log EXCEPT !.done = TRUE]
    /\ UNCHANGED << dirVars, argVars, trainVars, should_graceful_exit,
                    user_input, mgmtPc, trainPc, hist >>

(* ----------------------------- the process ---------------------------- *)

\* The process has ended: no thread of it is left running.
ProcessEnded ==
    /\ mainPc \in Terminal
    /\ mgmtPc \in Terminal
    /\ trainPc \in Terminal

\* The per-process part of the history.
NewProcess(h) ==
    [h EXCEPT !.loadFailed = FALSE, !.setDuring = 0, !.ckptEpochs = {},
              !.ckptBranch = {}, !.ckptFailedAt = 0, !.finalSaves = 0,
              !.loaded = 0, !.trainCalls = 0, !.exitBy = "none"]

\* The process is killed: every thread stops where it is and the memory of
\* the process is gone; the model directory stays as it is.
Kill ==
    /\ ~ProcessEnded
    /\ hist.faults < MaxFaults
    /\ mainPc' = "killed"
    /\ mgmtPc' = "killed"
    /\ trainPc' = "killed"
    /\ training_meta' = [iters |-> 0, tok |-> NoTok]
    /\ num_epochs' = 0
    /\ num_epochs_since_checkpoint' = 0
    /\ raisedAt' = "none"
    /\ should_graceful_exit' = FALSE
    /\ user_input' = << >>
    /\ log' = NoLog
    /\ checkpoints' = {}
    /\ hist' = [NewProcess(hist) EXCEPT !.killed = TRUE, !.faults = @ + 1]
    /\ UNCHANGED << file, argVars >>

\* A new process is started on the same model directory (lines 142-167,
\* 225-230, 305-311): the command line is the same but for the tokenizer
\* index, the one argument the progress file records.
Restart ==
    /\ ProcessEnded
    /\ hist.runs < MaxRuns
    /\ tokenizer_index' \in Toks
    /\ num_epochs' = 0
    /\ num_epochs_since_checkpoint' = 0
    /\ raisedAt' = "none"
    /\ should_graceful_exit' = FALSE
    /\ user_input' = << >>
    /\ mainPc' = "start"
    /\ mgmtPc' = "notstarted"
    /\ trainPc' = "notstarted"
    /\ log' = NoLog
    /\ checkpoints' = {}
    /\ hist' = [NewProcess(hist) EXCEPT !.runs = @ + 1]
    /\ UNCHANGED << file, target_epochs, train_epoch_steps,
                    checkpoint_every_epochs, training_meta >>

Next ==
    \/ Setup
    \/ LoopCheck
    \/ TrainReturn
    \/ TrainRaise
    \/ EpochSaveOpen
    \/ EpochSaveWrite
    \/ EpochSaveRaise
    \/ CheckpointModelSave
    \/ CheckpointMetaSave
    \/ CheckpointRaise
    \/ Finally
    \/ FinalSaveOpen
    \/ FinalSaveWrite
    \/ FinalSaveRaise
    \/ ManagementBegin
    \/ ManagementInput
    \/ ManagementEOF
    \/ MainStartManagement
    \/ MainJoinTraining
    \/ MainJoinManagement
    \/ Kill
    \/ Restart

Spec == Init /\ [][Next]_vars

(* ------------------------------ claims -------------------------------- *)

\* No process on this model directory was killed and no write to storage
\* raised.
Clean == ~hist.killed /\ ~hist.ioFailed

\* The training thread has loaded the metadata and has not changed it yet.
JustLoaded == trainPc \in {"loop", "train"} /\ num_epochs = 0

\* C1: on a model directory that started without a progress file, after
\* processes that together completed N epochs of S steps, none killed and
\* none failing to write, the training_iterations a process loads is N*S,
\* whatever the cadence and the number of checkpoints.
C1_Resumability ==
    (Clean /\ JustLoaded) =>
        training_meta.iters = hist.epochsDone * train_epoch_steps

C1_Witness ==
    /\ Clean
    /\ JustLoaded
    /\ hist.runs = 2
    /\ hist.epochsDone = 2
    /\ train_epoch_steps = 2
    /\ checkpoint_every_epochs = 1
    /\ training_meta.iters = 4

\* C2: when the event is set while model.train runs for epoch k, no later
\* epoch is started, and, unless model.train itself raises, the thread ends
\* with epoch k counted and the progress with it saved.
C2_ShutdownAtEpochBoundary ==
    hist.setDuring # 0 =>
        /\ num_epochs <= hist.setDuring
        /\ trainPc = "train" => num_epochs + 1 = hist.setDuring
        /\ (trainPc = "done" /\ raisedAt # "train") =>
              /\ num_epochs = hist.setDuring
              /\ file = Content(training_meta)

C2_Witness ==
    /\ hist.setDuring = 2
    /\ trainPc = "done"
    /\ raisedAt = "none"
    /\ num_epochs = 2
    /\ target_epochs = -1
    /\ file.iters = 2 * train_epoch_steps

\* The epochs of this process whose end-of-epoch decision (line 285) has
\* been taken, and those whose checkpoint, if any, has been written.
Decided ==
    IF trainPc \in {"save_open", "save_write"} THEN num_epochs - 1
                                               ELSE num_epochs
Settled ==
    IF trainPc \in {"save_open", "save_write", "ckpt_model", "ckpt_meta"}
    THEN num_epochs - 1
    ELSE num_epochs

Multiples(c, n) == {e \in 1..n : e % c = 0}

\* C3: in a process with cadence C >= 1 and no failed write, the epochs that
\* end in a checkpoint are exactly the multiples of C; the branch of line 285
\* is taken exactly at those epochs and each checkpoint resets the counter.
C3_CheckpointCadence ==
    (checkpoint_every_epochs >= 1 /\ ~hist.ioFailed) =>
        /\ hist.ckptEpochs = Multiples(checkpoint_every_epochs, Settled)
        /\ hist.ckptBranch = Multiples(checkpoint_every_epochs, Decided)
        /\ Settled = num_epochs =>
              num_epochs_since_checkpoint =
                  num_epochs % checkpoint_every_epochs

C3_Witness ==
    /\ checkpoint_every_epochs = 2
    /\ ~hist.ioFailed
    /\ trainPc = "loop"
    /\ num_epochs = 3
    /\ hist.ckptEpochs = {2}
    /\ num_epochs_since_checkpoint = 1

\* The training thread has left the loop of line 264.
LoopLeft == trainPc \in {"finally", "final_open", "final_write", "done"}

\* C4: a checkpoint write that raises at the end of epoch k does not abort
\* the run: epoch k stays counted and the loop is left only because the
\* event is set or the target is reached.
C4_CheckpointFailureIsolation ==
    hist.ckptFailedAt # 0 =>
        /\ num_epochs >= hist.ckptFailedAt
        /\ LoopLeft =>
              \/ should_graceful_exit
              \/ (target_epochs >= 0 /\ num_epochs >= target_epochs)

\* C5: after a process was killed, the next process's load of the progress
\* file succeeds and yields at least the last training_iterations whose
\* save had completed.
C5_CrashDurability ==
    (hist.killed /\ ~hist.ioFailed /\ hist.runs > 1
        /\ trainPc \notin {"notstarted", "setup", "killed"}) =>
        /\ ~hist.loadFailed
        /\ training_meta.iters >= hist.persisted

\* C6: at every step of a save the progress file holds its complete
\* previous content or its complete new content.
C6_AtomicSave == file.st # "partial"

\* C7: when do_training has returned, whatever ended the loop, one save was
\* made after the loop and the progress file holds the metadata in memory.
C7_TerminalPersistence ==
    trainPc = "done" =>
        /\ hist.finalSaves = 1
        /\ file = Content(training_meta)

C7_Witness ==
    /\ trainPc = "done"
    /\ raisedAt = "train"
    /\ num_epochs = 1
    /\ hist.finalSaves = 1
    /\ file.iters = train_epoch_steps

\* C8: "Done" is logged only when the training thread and the management
\* thread have both ended.
C8_DoneAfterBoth ==
    log.done =>
        /\ trainPc \in {"done", "raised"}
        /\ mgmtPc \in {"done", "raised"}

C8_Witness ==
    /\ log.done
    /\ mainPc = "done"
    /\ trainPc = "done"
    /\ mgmtPc = "done"
    /\ num_epochs = 2

\* C9: the training_iterations recorded in the progress file never falls
\* below the last value recorded there, and, as long as no process was
\* killed and no write raised, the value in memory never decreases, from one
\* process to the next included.
C9_Monotonic ==
    [][/\ file'.st = "ok" => file'.iters >= hist.persisted
       /\ (~hist'.killed /\ ~hist'.ioFailed) =>
             training_meta'.iters >= training_meta.iters]_vars

C9_Witness ==
    /\ hist.runs = 2
    /\ Clean
    /\ trainPc = "done"
    /\ raisedAt = "train"
    /\ num_epochs = 1
    /\ hist.epochsDone = 2
    /\ file.st = "ok"
    /\ file.iters = 2 * train_epoch_steps

\* C10: a process that finds tokenizer index A recorded and is given B # A
\* keeps the recorded training_iterations, uses B, warns once, and every
\* save it makes records B; when A = B it does not warn.
C10_TokenizerOverride ==
    /\ [](/\ (JustLoaded /\ file.st = "ok") =>
               /\ training_meta.iters = file.iters
               /\ training_meta.tok = tokenizer_index
               /\ log.warn = IF file.tok # tokenizer_index THEN 1 ELSE 0
          /\ log.warn <= 1)
    /\ [][(file' # file /\ file'.st = "ok") =>
              file'.tok = tokenizer_index]_vars

C10_Witness ==
    /\ hist.runs = 2
    /\ log.warn = 1
    /\ trainPc = "done"
    /\ num_epochs = 1
    /\ tokenizer_index = "tokB"
    /\ file = [st |-> "ok", iters |-> 2 * train_epoch_steps, tok |-> "tokB"]

\* C11: a cadence of 0 or less is rejected before the loop: with it no
\* epoch is run and no checkpoint is written.
C11_CadenceRejected ==
    checkpoint_every_epochs <= 0 =>
        /\ hist.trainCalls = 0
        /\ checkpoints = {}

\* What C12 says of the counters and of the loop after model.train raised.
ExecutorFailureStopsLoop ==
    /\ LoopLeft \/ trainPc = "raised"
    /\ hist.trainCalls = num_epochs + 1
    /\ training_meta.iters = hist.loaded + num_epochs * train_epoch_steps

C13_TerminalClassification ==
    log.graceful =>
        /\ hist.exitBy = "flag"
        /\ raisedAt = "none"

\* The checkpoint directory of the current training_iterations, complete.
CheckpointNow ==
    [n |-> training_meta.iters, meta |-> Content(training_meta)]

\* C14: within an epoch the save of the progress file is complete before the
\* checkpoint write begins, and both are complete before the loop condition
\* is evaluated again.
C14_EpochOrdering ==
    /\ trainPc \in {"save_open", "save_write"} =>
          /\ num_epochs \notin hist.ckptEpochs
          /\ \A c \in checkpoints : c.n # training_meta.iters
    /\ trainPc \in {"ckpt_model", "ckpt_meta"} =>
          /\ file = Content(training_meta)
          /\ hist.persisted = training_meta.iters
          /\ num_epochs \in hist.ckptBranch
    /\ (trainPc = "loop" /\ num_epochs > 0) =>
          /\ file = Content(training_meta)
          /\ num_epochs \in hist.ckptBranch =>
                /\ num_epochs \in hist.ckptEpochs
                /\ CheckpointNow \in checkpoints

C14_Witness ==
    /\ trainPc = "loop"
    /\ num_epochs = 2
    /\ train_epoch_steps = 2
    /\ hist.ckptBranch = {1, 2}
    /\ file = Content(training_meta)
    /\ CheckpointNow \in checkpoints
    /\ Cardinality(checkpoints) = 2

\* A process on a model directory without a progress file that ran to its
\* target without the event, a raised call or a kill.
FreshRunCompleted ==
    /\ hist.runs = 1
    /\ Clean
    /\ trainPc = "done"
    /\ raisedAt = "none"
    /\ hist.exitBy = "target"
    /\ target_epochs >= 0
    /\ checkpoint_every_epochs >= 1

\* C15: every checkpoint directory is named by the training_iterations at
\* the time of writing and its copy of the metadata records the same number;
\* a fresh run of T epochs with cadence C and S steps, not shut down and not
\* failing, leaves exactly the floor(T/C) checkpoints C*S, 2*C*S, ... and
\* ends with training_iterations T*S.
C15_CheckpointNaming ==
    /\ \A c \in checkpoints :
          /\ c.n <= training_meta.iters
          /\ c.meta.st = "ok" => c.meta.iters = c.n
    /\ trainPc = "ckpt_meta" =>
          [n |-> training_meta.iters, meta |-> Absent] \in checkpoints
    /\ FreshRunCompleted =>
          /\ checkpoints =
                {[n |-> e * train_epoch_steps,
                  meta |-> Content([iters |-> e * train_epoch_steps,
                                    tok |-> tokenizer_index])] :
                   e \in Multiples(checkpoint_every_epochs, target_epochs)}
          /\ Cardinality(checkpoints) =
                target_epochs \div checkpoint_every_epochs
          /\ training_meta.iters = target_epochs * train_epoch_steps
          /\ file = Content(training_meta)

C15_Witness ==
    /\ FreshRunCompleted
    /\ target_epochs = 2
    /\ checkpoint_every_epochs = 1
    /\ train_epoch_steps = 2
    /\ {c.n : c \in checkpoints} = {2, 4}
    /\ training_meta.iters = 4

\* The step stays within one process: it is neither Kill nor Restart.
SameProcess == mainPc' # "killed" /\ hist'.runs = hist.runs

\* C16: within a process the event goes from unset to set only when the
\* management thread reads a line that is 'quit' once stripped, and that
\* thread then ends; any other line leaves the event as it is and the thread
\* reading; the event is never cleared and the training thread never
\* writes it.
C16_SignalWriter ==
    [][SameProcess =>
          /\ should_graceful_exit' # should_graceful_exit =>
                /\ ~should_graceful_exit
                /\ mgmtPc = "input"
                /\ user_input' = Quit
                /\ mgmtPc' = "done"
          /\ (mgmtPc = "input" /\ mgmtPc' = "done") =>
                /\ user_input' = Quit
                /\ should_graceful_exit'
          /\ (user_input' # user_input /\ user_input' # Quit) =>
                /\ mgmtPc = "input"
                /\ mgmtPc' = "input"
                /\ should_graceful_exit' = should_graceful_exit
          /\ should_graceful_exit => should_graceful_exit'
          /\ trainPc' # trainPc =>
                should_graceful_exit' = should_graceful_exit]_vars

C16_Witness ==
    /\ should_graceful_exit
    /\ user_input = Quit
    /\ mgmtPc = "done"
    /\ trainPc = "train"
    /\ hist.setDuring = 2

\* C17: when the save after the loop raises, the failure is logged and not
\* raised again, and the summary is still logged.
C17_FinalSaveFailureAbsorbed ==
    (hist.finalSaves > 0 /\ trainPc \in {"done", "raised"}) =>
        /\ trainPc = "done"
        /\ log.summary

\* C18: without a progress file the thread starts from training_iterations 0
\* and goes on to train; with a progress file that cannot be loaded the
\* thread ends at once by the exception, no epoch is run and the file is
\* left as it was.
C18_LoadOutcomes ==
    /\ [](hist.loadFailed =>
             /\ trainPc = "raised"
             /\ file.st = "partial"
             /\ hist.trainCalls = 0
             /\ num_epochs = 0
             /\ ~log.summary)
    /\ [][(trainPc = "setup" /\ trainPc' # "setup" /\ SameProcess) =>
             /\ file' = file
             /\ file.st = "absent" =>
                   /\ trainPc' = "loop"
                   /\ training_meta'.iters = 0
             /\ file.st = "partial" =>
                   /\ trainPc' = "raised"
                   /\ hist'.loadFailed]_vars

C18_Witness ==
    /\ hist.loadFailed
    /\ hist.runs = 2
    /\ trainPc = "raised"
    /\ file = Truncated
    /\ mgmtPc = "input"

\* C19: the main thread's join of the training thread comes after the
\* management thread has started it: the join never finds the thread
\* unstarted.
C19_JoinAfterStart == mainPc # "raised"

\* A step the process takes with nothing arriving on standard input.
UnpromptedStep ==
    \/ ManagementBegin
    \/ MainStartManagement
    \/ MainJoinTraining
    \/ MainJoinManagement

\* C20: once the training thread has finished a non-negative target, the
\* process goes on to log "Done" without a line from the operator: it is
\* never left waiting for standard input.
C20_DoneWithoutQuit ==
    (/\ target_epochs >= 0
     /\ trainPc = "done"
     /\ hist.exitBy = "target"
     /\ raisedAt = "none"
     /\ mainPc \notin {"raised", "killed"}) =>
        log.done \/ ENABLED UnpromptedStep

====
